---- MODULE Spec2Model ----
(***************************************************************************)
(* Model of notebooks/sequence_to_sequence.ipynb: the corpus filter        *)
(* (get_texts), the start/end-token wrapping, the Keras tokenizers, the    *)
(* padding and one-hot vectorizers, the batch generator generate_batches,  *)
(* translate and decode_outputs.                                           *)
(*                                                                         *)
(* A text is a sequence of one-character strings; a word is a non-empty    *)
(* text without blanks.  Python lists and numpy arrays are sequences, so   *)
(* the Python position p is the TLA+ position p+1.                         *)
(***************************************************************************)
EXTENDS Integers, Sequences, FiniteSets, TLC

\* ------------------------------------------------------------------ bounds
\* longest corpus (number of sentence pairs) handed to get_texts
MaxCorpus == 2
\* max_len is at most MaxLen (the notebook sets 6)
MaxLen == 2
\* max_examples is at most MaxExamples (the notebook sets 80000)
MaxExamples == 3
\* the small vocabulary cap max_vocab_size is drawn from (next to the
\* notebook's own value)
MaxVocabSize == 4
\* batch_size is drawn from 1..MaxBatchSize (the notebook sets 128)
MaxBatchSize == 3

\* max_vocab_size as the notebook sets it
NotebookVocabSize == 10000

\* ------------------------------------------------------------ text helpers
Min(a, b) == IF a <= b THEN a ELSE b
Max(a, b) == IF a >= b THEN a ELSE b

\* the element of a one-element set; The({ e(x) : x \in {a} }) is e(a) with
\* a evaluated once
The(S) == CHOOSE r \in S : TRUE

RECURSIVE SplitFrom(_, _, _, _)
\* str.split(sep) scanning from position k with the current segment cur:
\* every separator closes a segment, empty segments are kept.
SplitFrom(s, sep, k, cur) ==
    IF k > Len(s) THEN <<cur>>
    ELSE IF s[k] = sep THEN <<cur>> \o SplitFrom(s, sep, k + 1, <<>>)
    ELSE SplitFrom(s, sep, k + 1, Append(cur, s[k]))

\* Python's s.split(' ')
Split(s) == The({ SplitFrom(t, " ", 1, <<>>) : t \in {s} })

RECURSIVE Join(_)
\* Python's ' '.join(words)
Join(words) ==
    IF Len(words) = 0 THEN <<>>
    ELSE IF Len(words) = 1 THEN words[1]
    ELSE words[1] \o <<" ">> \o Join(Tail(words))

\* a list built item by item, as one evaluated tuple
List(f) == f \o <<>>

\* a function built value by value, as one evaluated function
Table(f) == f @@ <<>>

\* the items of a list
Range(seq) == { seq[k] : k \in 1..Len(seq) }

\* Python's seq[:n] for n >= 0
Take(seq, n) == SubSeq(seq, 1, Min(n, Len(seq)))

\* ------------------------------------------------------------- the corpus
\* the sentences a corpus is made of: "a", "a b", "a b c", and "a  b", whose
\* two blanks make three whitespace tokens
Sentences ==
    { <<"a">>, <<"a", " ", "b">>, <<"a", " ", "b", " ", "c">>,
      <<"a", " ", " ", "b">> }

SeqsUpTo(S, n) == UNION { [1..k -> S] : k \in 0..n }

VARIABLES
    pc,            \* the cell or statement the notebook is at
    source_texts,  \* data['en']
    target_texts,  \* data['de']
    max_len,
    max_examples,
    max_vocab_size,
    en_texts,
    de_texts,
    n_examples,
    source_word_index,          \* source_tokenizer.word_index
    target_word_index,          \* target_tokenizer.word_index
    source_vocab_size,
    target_vocab_size,
    max_input_length,
    max_output_length,
    target_reverse_word_index,
    gen_pc,        \* where the generator of generate_batches stands
    batch_size,
    one_hot,
    n_batches,
    sequences,
    X,
    y,
    idx,           \* the permutation of the pass, positions 1..n
    i,             \* the for loop's variable
    batch,         \* the value of the last yield
    pass_seen,     \* history: corpus positions yielded since the last shuffle
    pass_yields,   \* history: number of yields since the last shuffle
    tr_sentences,  \* the frame of a call of translate: its arguments,
    tr_one_hot,
    tr_tokens,     \* the token sequences before padding,
    tr_seqs,       \* and its locals seqs, input, preds and its result
    tr_input,
    tr_preds,
    tr_outputs

corpus_vars == <<source_texts, target_texts, max_len, max_examples, max_vocab_size>>
text_vars == <<en_texts, de_texts, n_examples>>
tok_vars == <<source_word_index, target_word_index, source_vocab_size,
              target_vocab_size, max_input_length, max_output_length,
              target_reverse_word_index>>
gen_vars == <<gen_pc, batch_size, one_hot, n_batches, sequences, X, y, idx, i,
              batch, pass_seen, pass_yields>>

tr == <<tr_sentences, tr_one_hot, tr_tokens, tr_seqs, tr_input, tr_preds,
         tr_outputs>>

vars == <<pc, corpus_vars, text_vars, tok_vars, gen_vars, tr>>

\* the value of everything not yet assigned
NoTokenizers ==
    /\ source_word_index = <<>>
    /\ target_word_index = <<>>
    /\ source_vocab_size = 0
    /\ target_vocab_size = 0
    /\ max_input_length = 0
    /\ max_output_length = 0
    /\ target_reverse_word_index = <<>>

\* no call of translate is under way
NoCall ==
    /\ tr_sentences = <<>>
    /\ tr_one_hot = FALSE
    /\ tr_tokens = <<>>
    /\ tr_seqs = <<>>
    /\ tr_input = <<>>
    /\ tr_preds = <<>>
    /\ tr_outputs = <<>>

NoGenerator ==
    /\ gen_pc = "none"
    /\ batch_size = 0
    /\ one_hot = FALSE
    /\ n_batches = 0
    /\ sequences = <<>>
    /\ X = <<>>
    /\ y = <<>>
    /\ idx = <<>>
    /\ i = 0
    /\ batch = <<>>
    /\ pass_seen = <<>>
    /\ pass_yields = 0

\* ---------------------------------------------------------------- get_texts
\* mutant: the comparison with max_len made strict
ShortEnough_Strict(text, maxlen) == Len(Split(text)) < maxlen

\* the filter of get_texts: len(text.split(' ')) <= max_len
ShortEnough(text, maxlen) == Len(Split(text)) <= maxlen

RECURSIVE GetTextsLoop_EagerTarget(_, _, _, _, _, _)
\* mutant: the target is looked up before the source is tested
GetTextsLoop_EagerTarget(srcs, tgts, maxlen, n, sources, targets) ==
    IF n > Len(srcs) THEN [ok |-> TRUE, sources |-> sources, targets |-> targets]
    ELSE IF n > Len(tgts)
         THEN [ok |-> FALSE, sources |-> sources, targets |-> targets]
         ELSE IF ShortEnough(srcs[n], maxlen) /\ ShortEnough(tgts[n], maxlen)
              THEN GetTextsLoop_EagerTarget(srcs, tgts, maxlen, n + 1,
                                            Append(sources, srcs[n]),
                                            Append(targets, tgts[n]))
              ELSE GetTextsLoop_EagerTarget(srcs, tgts, maxlen, n + 1,
                                            sources, targets)

RECURSIVE GetTextsLoop(_, _, _, _, _, _)
\* the for loop of get_texts from position n on, with the lists built so
\* far; target_texts[n] raises IndexError when the target list is shorter
GetTextsLoop(srcs, tgts, maxlen, n, sources, targets) ==
    IF n > Len(srcs) THEN [ok |-> TRUE, sources |-> sources, targets |-> targets]
    ELSE IF ShortEnough(srcs[n], maxlen)
         THEN IF n > Len(tgts)
              THEN [ok |-> FALSE, sources |-> sources, targets |-> targets]
              ELSE IF ShortEnough(tgts[n], maxlen)
                   THEN GetTextsLoop(srcs, tgts, maxlen, n + 1,
                                     Append(sources, srcs[n]),
                                     Append(targets, tgts[n]))
                   ELSE GetTextsLoop(srcs, tgts, maxlen, n + 1, sources, targets)
         ELSE GetTextsLoop(srcs, tgts, maxlen, n + 1, sources, targets)

\* mutant: only the sources are cut to max_examples
get_texts_TargetsUncut(srcs, tgts, maxlen, maxex) ==
    LET r == GetTextsLoop(srcs, tgts, maxlen, 1, <<>>, <<>>)
    IN  [ok |-> r.ok, sources |-> Take(r.sources, maxex), targets |-> r.targets]

\* get_texts(source_texts, target_texts, max_len, max_examples)
get_texts(srcs, tgts, maxlen, maxex) ==
    LET r == GetTextsLoop(srcs, tgts, maxlen, 1, <<>>, <<>>)
    IN  [ok |-> r.ok,
         sources |-> Take(r.sources, maxex),
         targets |-> Take(r.targets, maxex)]

\* the state in which get_texts is about to be called on some corpus
InitTexts ==
    /\ pc = "get_texts"
    /\ source_texts \in SeqsUpTo(Sentences, MaxCorpus)
    /\ target_texts \in SeqsUpTo(Sentences, MaxCorpus)
    /\ max_len \in 1..MaxLen
    /\ max_examples \in 0..MaxExamples
    /\ max_vocab_size = NotebookVocabSize
    /\ en_texts = <<>>
    /\ de_texts = <<>>
    /\ n_examples = 0
    /\ NoTokenizers
    /\ NoGenerator
    /\ NoCall

\* en_texts, de_texts = get_texts(...); n_examples = len(en_texts)
LoadCorpus ==
    /\ pc = "get_texts"
    /\ LET r == get_texts(source_texts, target_texts, max_len, max_examples)
       IN  IF r.ok
           THEN /\ pc' = "add_tokens"
                /\ en_texts' = r.sources
                /\ de_texts' = r.targets
                /\ n_examples' = Len(r.sources)
           ELSE /\ pc' = "IndexError"
                /\ UNCHANGED <<en_texts, de_texts, n_examples>>
    /\ UNCHANGED <<corpus_vars, tok_vars, gen_vars, tr>>

NextTexts == LoadCorpus

SpecTexts == InitTexts /\ [][NextTexts]_vars

\* ------------------------------------------------- start and end tokens
start_token == "^"
end_token == "$"

\* ' '.join([start_token, text, end_token])
AddStartEnd(text) ==
    The({ Join(<< <<start_token>>, t, <<end_token>> >>) : t \in {text} })

\* ------------------------------------------------------------ tokenizers
\* the characters of the filters string before the two replace calls (the
\* backquote and the three non-ASCII quotation marks and dash of the string,
\* which no text of the model holds, are left out)
BaseFilterChars ==
    { "!", "\"", "#", "$", "%", "&", "(", ")", "*", "+", ",", "-", ".", "/",
      ":", ";", "<", "=", ">", "?", "@", "[", "\\", "]", "^", "_", "{", "|",
      "}", "~", "\t", "\n", "'" }

\* mutant: the two replace calls are left out
filter_chars_Unreplaced == BaseFilterChars

\* filter_chars: the string with start_token and end_token replaced by ''
filter_chars == BaseFilterChars \ {start_token, end_token}

\* str.lower() on the letters the corpus uses
Lower(c) ==
    CASE c = "A" -> "a"
      [] c = "B" -> "b"
      [] c = "C" -> "c"
      [] c = "D" -> "d"
      [] c = "I" -> "i"
      [] OTHER -> c

\* Tokenizer's text_to_word_sequence: lower-case, turn every filter
\* character into a blank, split on blanks, drop the empty pieces
TextToWordSequence(text) ==
    The({ SelectSeq(Split(cleaned), LAMBDA w : w # <<>>) :
            cleaned \in { List([k \in 1..Len(lowered) |->
                              IF lowered[k] \in filter_chars THEN " " ELSE lowered[k]]) :
                lowered \in { List([k \in 1..Len(t) |-> Lower(t[k])]) :
                    t \in {text} } } })

\* the words of a list of texts
Vocabulary(texts) ==
    UNION { Range(TextToWordSequence(texts[k])) : k \in 1..Len(texts) }

RECURSIVE Occurrences(_, _)
\* how often word w is in the word sequence ws
Occurrences(w, ws) ==
    IF ws = <<>> THEN 0
    ELSE (IF Head(ws) = w THEN 1 ELSE 0) + Occurrences(w, Tail(ws))

RECURSIVE WordCount(_, _)
\* Tokenizer.word_counts[w] after fit_on_texts(texts)
WordCount(w, texts) ==
    IF texts = <<>> THEN 0
    ELSE Occurrences(w, TextToWordSequence(Head(texts))) + WordCount(w, Tail(texts))

\* the word_index values fit_on_texts can produce: the words sorted by
\* falling count are numbered from 1; words of equal count come in the
\* order of the word_counts dict, which is any order
WordIndexes(texts) ==
    LET voc == Vocabulary(texts)
    IN  { f \in [voc -> 1..Cardinality(voc)] :
            /\ \A v, w \in voc : v # w => f[v] # f[w]
            /\ \A v, w \in voc :
                  WordCount(v, texts) > WordCount(w, texts) => f[v] < f[w] }

RECURSIVE WordsToIndices(_, _, _)
\* one text of texts_to_sequences: a word without index is skipped, and so
\* is a word whose index is nb_words or more
WordsToIndices(ws, word_index, nb_words) ==
    IF ws = <<>> THEN <<>>
    ELSE LET rest == WordsToIndices(Tail(ws), word_index, nb_words)
         IN  IF Head(ws) \notin DOMAIN word_index THEN rest
             ELSE IF word_index[Head(ws)] >= nb_words THEN rest
             ELSE <<word_index[Head(ws)]>> \o rest

\* tokenizer.texts_to_sequences(texts)
TextsToSequences(texts, word_index, nb_words) ==
    The({ List([k \in 1..Len(ts) |->
                 The({ WordsToIndices(ws, wi, nb_words) :
                         ws \in {TextToWordSequence(ts[k])} })]) :
            ts \in {texts}, wi \in {word_index} })

\* mutant: the last length in place of the largest
MaxOf_Last(ns) == ns[Len(ns)]

RECURSIVE MaxOf(_)
\* max(...) over a non-empty list of numbers
MaxOf(ns) ==
    IF Len(ns) = 1 THEN ns[1] ELSE Max(Head(ns), MaxOf(Tail(ns)))

\* max(len(seq) for seq in tokenizer.texts_to_sequences_generator(texts))
MaxSequenceLength(texts, word_index, nb_words) ==
    The({ MaxOf(List([k \in 1..Len(seqs) |-> Len(seqs[k])])) :
            seqs \in {TextsToSequences(texts, word_index, nb_words)} })

\* {v: k for k, v in word_index.items()}
ReverseIndex(word_index) ==
    The({ Table([n \in { wi[w] : w \in DOMAIN wi } |->
                    CHOOSE w \in DOMAIN wi : wi[w] = n]) :
            wi \in {word_index} })

\* ------------------------------------------------------------- vectorizer
Zeros(n) == [k \in 1..n |-> 0]

\* mutant: padding='post', the zeros behind the sequence
PadOne_Post(seq, maxlen) ==
    IF Len(seq) >= maxlen
    THEN SubSeq(seq, Len(seq) - maxlen + 1, Len(seq))
    ELSE seq \o [k \in 1..(maxlen - Len(seq)) |-> 0]

\* mutant: a short sequence gets no zeros in front
PadOne_NoPad(seq, maxlen) ==
    IF Len(seq) >= maxlen THEN SubSeq(seq, Len(seq) - maxlen + 1, Len(seq)) ELSE seq

\* keras pad_sequences on one sequence (padding='pre', truncating='pre',
\* value 0): the last maxlen items, with zeros in front up to maxlen
PadOne(seq, maxlen) ==
    The({ IF Len(s) >= maxlen
          THEN SubSeq(s, Len(s) - maxlen + 1, Len(s))
          ELSE Zeros(maxlen - Len(s)) \o s :
            s \in {seq} })

\* pad_sequences(seqs, maxlen=maxlen)
PadSequences(seqs, maxlen) ==
    The({ List([k \in 1..Len(ss) |-> PadOne(ss[k], maxlen)]) : ss \in {seqs} })

\* mutant: M[[word_idxs, sent]] read as a choice of whole rows, all set
OneHotRows_WholeRows(sent, length, vocab_size) ==
    [p \in 1..length |-> [v \in 0..(vocab_size - 1) |-> 1]]

\* mutant: the entry of a position is set from the sequence read backwards
OneHotRows_Reversed(sent, length, vocab_size) ==
    [p \in 1..length |->
        [v \in 0..(vocab_size - 1) |-> IF v = sent[length - p + 1] THEN 1 ELSE 0]]

\* one example of a one-hot tensor: np.zeros((length, vocab_size)) with
\* M[[word_idxs, sent]] = True, the entry (position, sent[position]) set for
\* every position; an entry is 1 for True and 0 for False
OneHotRows(sent, length, vocab_size) ==
    The({ List([p \in 1..length |->
                 Table([v \in 0..(vocab_size - 1) |-> IF v = s[p] THEN 1 ELSE 0])]) :
            s \in {sent} })

\* build_one_hot_vecs(sequences)
build_one_hot_vecs(seqs, length, vocab_size) ==
    The({ List([k \in 1..Len(ss) |-> OneHotRows(ss[k], length, vocab_size)]) :
            ss \in {seqs} })

\* build_seq_vecs(sequences): np.array(sequences)
build_seq_vecs(seqs) == seqs

\* build_target_vecs(): the one-hot tensor of the padded target sequences
build_target_vecs(texts, word_index, nb_words, length, vocab_size) ==
    The({ List([k \in 1..Len(padded) |-> OneHotRows(padded[k], length, vocab_size)]) :
            padded \in {PadSequences(TextsToSequences(texts, word_index, nb_words),
                                     length)} })

\* ---------------------------------------------------------------- decoder
\* mutant: the last index that holds the largest value
ArgMax_Last(row) ==
    CHOOSE v \in DOMAIN row :
        /\ \A u \in DOMAIN row : row[u] <= row[v]
        /\ \A u \in DOMAIN row : u > v => row[u] < row[v]

\* numpy argmax of one row: the first index that holds the largest value
ArgMax(row) ==
    CHOOSE v \in DOMAIN row :
        /\ \A u \in DOMAIN row : row[u] <= row[v]
        /\ \A u \in DOMAIN row : u < v => row[u] < row[v]

\* the words of one example: the arg-max of every position looked up with
\* target_reverse_word_index.get, the None results left out
DecodeOne(probs, reverse_word_index) ==
    The({ Join(List([k \in 1..Len(known) |-> rwi[known[k]]])) :
            known \in { SelectSeq(preds, LAMBDA n : n \in DOMAIN rwi) :
                preds \in { List([p \in 1..Len(ps) |-> ArgMax(ps[p])]) :
                    ps \in {probs}, rwi \in {reverse_word_index} },
                rwi \in {reverse_word_index} },
            rwi \in {reverse_word_index} })

\* decode_outputs(predictions)
decode_outputs(predictions, reverse_word_index) ==
    The({ List([k \in 1..Len(ps) |-> DecodeOne(ps[k], rwi)]) :
            ps \in {predictions}, rwi \in {reverse_word_index} })

\* ------------------------------------------------------ the notebook cells
\* the parallel corpus the notebook's runs read prefixes of
CorpusEn ==
    << <<"a", " ", "a">>, <<"a">>, <<"B", " ", "a", ".">>,
       <<"a", " ", "b", " ", "c">> >>
CorpusDe ==
    << <<"c", " ", "c">>, <<"c", "-", "d">>, <<"c", " ", "d">>, <<"c">> >>

\* the state before the corpus cell runs: a corpus file is loaded and the
\* three limits are set
Init ==
    /\ pc = "get_texts"
    /\ \E k \in 0..Len(CorpusEn) :
          /\ source_texts = Take(CorpusEn, k)
          /\ target_texts = Take(CorpusDe, k)
    /\ max_len = MaxLen
    /\ max_examples = MaxExamples
    /\ max_vocab_size \in {MaxVocabSize, NotebookVocabSize}
    /\ en_texts = <<>>
    /\ de_texts = <<>>
    /\ n_examples = 0
    /\ NoTokenizers
    /\ NoGenerator
    /\ NoCall

\* en_texts = [' '.join([start_token, text, end_token]) for text in en_texts]
AddTokens ==
    /\ pc = "add_tokens"
    /\ pc' = "tokenize"
    /\ en_texts' = [k \in 1..Len(en_texts) |-> AddStartEnd(en_texts[k])]
    /\ de_texts' = [k \in 1..Len(de_texts) |-> AddStartEnd(de_texts[k])]
    /\ UNCHANGED <<corpus_vars, n_examples, tok_vars, gen_vars, tr>>

\* the two Tokenizer(max_vocab_size, filters=filter_chars).fit_on_texts
\* calls and the two vocabulary sizes
FitTokenizers ==
    /\ pc = "tokenize"
    /\ pc' = "max_lengths"
    /\ source_word_index' \in WordIndexes(en_texts)
    /\ target_word_index' \in WordIndexes(de_texts)
    /\ source_vocab_size' = Cardinality(DOMAIN source_word_index') + 1
    /\ target_vocab_size' = Cardinality(DOMAIN target_word_index') + 1
    /\ UNCHANGED <<corpus_vars, text_vars, max_input_length, max_output_length,
                   target_reverse_word_index, gen_vars, tr>>

\* max_input_length and max_output_length; max() of nothing raises ValueError
MaxLengths ==
    /\ pc = "max_lengths"
    /\ IF en_texts = <<>>
       THEN /\ pc' = "ValueError"
            /\ UNCHANGED <<max_input_length, max_output_length>>
       ELSE /\ pc' = "reverse_index"
            /\ max_input_length' =
                  MaxSequenceLength(en_texts, source_word_index, max_vocab_size)
            /\ max_output_length' =
                  MaxSequenceLength(de_texts, target_word_index, max_vocab_size)
    /\ UNCHANGED <<corpus_vars, text_vars, source_word_index, target_word_index,
                   source_vocab_size, target_vocab_size,
                   target_reverse_word_index, gen_vars, tr>>

\* target_reverse_word_index = {v:k for k,v in target_tokenizer.word_index.items()}
BuildReverseIndex ==
    /\ pc = "reverse_index"
    /\ pc' = "ready"
    /\ target_reverse_word_index' = ReverseIndex(target_word_index)
    /\ UNCHANGED <<corpus_vars, text_vars, source_word_index, target_word_index,
                   source_vocab_size, target_vocab_size, max_input_length,
                   max_output_length, gen_vars, tr>>

Cells == LoadCorpus \/ AddTokens \/ FitTokenizers \/ MaxLengths \/ BuildReverseIndex

\* -------------------------------------------------------- generate_batches
\* mutant: the quotient rounded down
NBatches_Floor(n, b) == n \div b

\* mutant: the slice starts one item late
Slice_Late(seq, start, end) == SubSeq(seq, start + 2, Min(end, Len(seq)))

\* mutant: the slice ends one item late
Slice_Long(seq, start, end) == SubSeq(seq, start + 1, Min(end + 1, Len(seq)))

\* mutant: one pass only
WhileCondition_Once == FALSE

\* Python's seq[start:end] for 0 <= start <= end
Slice(seq, start, end) == SubSeq(seq, start + 1, Min(end, Len(seq)))

\* math.ceil(n_examples/batch_size)
NBatches(n, b) == IF n % b = 0 THEN n \div b ELSE (n \div b) + 1

\* the condition of `while True`
WhileCondition == TRUE

\* np.random.permutation(n): the orders of the positions 1..n
PermutationsOf(n) ==
    { f \in [1..n -> 1..n] : \A a, b \in 1..n : a # b => f[a] # f[b] }

\* A[perm]: numpy indexing of the first axis with a list of positions
Reorder(A, perm) ==
    The({ List([k \in 1..Len(pm) |-> arr[pm[k]]]) : arr \in {A}, pm \in {perm} })

\* model.fit_generator(generator=generate_batches(batch_size, one_hot), ...):
\* the generator object is made; its body has not run yet
StartFit ==
    /\ pc = "ready"
    /\ gen_pc = "none"
    /\ tr_sentences = <<>>
    /\ gen_pc' = "created"
    /\ batch_size' \in 1..MaxBatchSize
    /\ one_hot' \in BOOLEAN
    /\ UNCHANGED <<pc, corpus_vars, text_vars, tok_vars, n_batches, sequences,
                   X, y, idx, i, batch, pass_seen, pass_yields, tr>>

\* the first next(): the body runs up to the while loop
FirstPull ==
    /\ gen_pc = "created"
    /\ gen_pc' = "while"
    /\ n_batches' = NBatches(n_examples, batch_size)
    /\ UNCHANGED <<pc, corpus_vars, text_vars, tok_vars, batch_size, one_hot,
                   sequences, X, y, idx, i, batch, pass_seen, pass_yields, tr>>

\* mutant: y is reordered by a permutation of its own
Shuffle_TwoPermutations ==
    /\ gen_pc = "while"
    /\ gen_pc' = "for"
    /\ sequences' = PadSequences(
                        TextsToSequences(en_texts, source_word_index, max_vocab_size),
                        max_input_length)
    /\ idx' \in PermutationsOf(Len(sequences'))
    /\ X' = Reorder(IF one_hot
                    THEN build_one_hot_vecs(sequences', max_input_length,
                                            source_vocab_size)
                    ELSE build_seq_vecs(sequences'),
                    idx')
    /\ \E other \in PermutationsOf(Len(sequences')) :
          y' = Reorder(build_target_vecs(de_texts, target_word_index,
                                         max_vocab_size, max_output_length,
                                         target_vocab_size),
                       other)
    /\ i' = 0
    /\ pass_seen' = <<>>
    /\ pass_yields' = 0
    /\ UNCHANGED <<pc, corpus_vars, text_vars, tok_vars, batch_size, one_hot,
                   n_batches, batch, tr>>

\* one turn of `while True` up to the for loop: the arrays are built and
\* both are reordered by one permutation
Shuffle ==
    /\ gen_pc = "while"
    /\ gen_pc' = "for"
    /\ sequences' = PadSequences(
                        TextsToSequences(en_texts, source_word_index, max_vocab_size),
                        max_input_length)
    /\ idx' \in PermutationsOf(Len(sequences'))
    /\ X' = Reorder(IF one_hot
                    THEN build_one_hot_vecs(sequences', max_input_length,
                                            source_vocab_size)
                    ELSE build_seq_vecs(sequences'),
                    idx')
    /\ y' = Reorder(build_target_vecs(de_texts, target_word_index, max_vocab_size,
                                      max_output_length, target_vocab_size),
                    idx')
    /\ i' = 0
    /\ pass_seen' = <<>>
    /\ pass_yields' = 0
    /\ UNCHANGED <<pc, corpus_vars, text_vars, tok_vars, batch_size, one_hot,
                   n_batches, batch, tr>>

\* the head of `for i in range(n_batches)`: the next slice is yielded, or
\* the loop ends and the while loop turns
ForStep ==
    /\ gen_pc = "for"
    /\ IF i < n_batches
       THEN LET start == batch_size * i
                end == start + batch_size
            IN  /\ gen_pc' = "yield"
                /\ batch' = <<Slice(X, start, end), Slice(y, start, end)>>
                /\ pass_seen' = pass_seen \o Slice(idx, start, end)
                /\ pass_yields' = pass_yields + 1
       ELSE /\ gen_pc' = IF WhileCondition THEN "while" ELSE "done"
            /\ UNCHANGED <<batch, pass_seen, pass_yields>>
    /\ UNCHANGED <<pc, corpus_vars, text_vars, tok_vars, batch_size, one_hot,
                   n_batches, sequences, X, y, idx, i, tr>>

\* a later next(): the generator resumes after its yield
Resume ==
    /\ gen_pc = "yield"
    /\ gen_pc' = "for"
    /\ i' = i + 1
    /\ UNCHANGED <<pc, corpus_vars, text_vars, tok_vars, batch_size, one_hot,
                   n_batches, sequences, X, y, idx, batch, pass_seen,
                   pass_yields, tr>>

\* fit_generator returns: the suspended generator is dropped
EndFit ==
    /\ gen_pc = "yield"
    /\ gen_pc' = "none"
    /\ batch_size' = 0
    /\ one_hot' = FALSE
    /\ n_batches' = 0
    /\ sequences' = <<>>
    /\ X' = <<>>
    /\ y' = <<>>
    /\ idx' = <<>>
    /\ i' = 0
    /\ batch' = <<>>
    /\ pass_seen' = <<>>
    /\ pass_yields' = 0
    /\ UNCHANGED <<pc, corpus_vars, text_vars, tok_vars, tr>>

Generator == StartFit \/ FirstPull \/ Shuffle \/ ForStep \/ Resume \/ EndFit

\* ---------------------------------------------------------------- translate
\* sentences of a reader's own: one longer than every corpus sentence, one
\* with a word of no vocabulary, and the empty one
OwnSentences ==
    { <<"^", " ", "a", " ", "b", " ", "a", " ", "a", " ", "b", " ", "$">>,
      <<"^", " ", "z", " ", "$">>,
      <<>> }

\* the lists of sentences translate is called with
TranslateInputs ==
    { <<en_texts[k]>> : k \in 1..Len(en_texts) }
        \cup { <<s>> : s \in OwnSentences }
        \cup { <<en_texts[1], s>> : s \in OwnSentences }

\* what model.predict may return for n examples: per position a
\* distribution over the target vocabulary, here one of four shapes (all
\* mass on index 0, the one-hot target of the first example, weights rising
\* with the index, and equal weights), as hundredths
Predictions(n) ==
    LET padding == List([p \in 1..max_output_length |->
                       Table([v \in 0..(target_vocab_size - 1) |->
                           IF v = 0 THEN 100 ELSE 0])])
        first == The({ List([p \in 1..max_output_length |->
                             Table([v \in 0..(target_vocab_size - 1) |->
                                 100 * target[1][p][v]])]) :
                         target \in {build_target_vecs(
                                         de_texts, target_word_index, max_vocab_size,
                                         max_output_length, target_vocab_size)} })
        rising == List([p \in 1..max_output_length |->
                       Table([v \in 0..(target_vocab_size - 1) |-> v])])
        flat == List([p \in 1..max_output_length |->
                     Table([v \in 0..(target_vocab_size - 1) |-> 25])])
    IN  { List([k \in 1..n |-> t]) : t \in {padding, first, rising, flat} }

\* translate(model, sentences, one_hot), up to its return
Translate ==
    /\ pc = "ready"
    /\ gen_pc = "none"
    /\ tr_sentences = <<>>
    /\ \E sentences_ \in TranslateInputs, one_hot_ \in BOOLEAN :
          \E preds \in Predictions(Len(sentences_)) :
             /\ tr_sentences' = sentences_
             /\ tr_one_hot' = one_hot_
             /\ tr_tokens' = TextsToSequences(sentences_, source_word_index,
                                              max_vocab_size)
             /\ tr_seqs' = PadSequences(tr_tokens', max_input_length)
             /\ tr_input' = IF one_hot_
                            THEN build_one_hot_vecs(tr_seqs', max_input_length,
                                                    source_vocab_size)
                            ELSE build_seq_vecs(tr_seqs')
             /\ tr_preds' = preds
             /\ tr_outputs' = decode_outputs(preds, target_reverse_word_index)
    /\ UNCHANGED <<pc, corpus_vars, text_vars, tok_vars, gen_vars>>

\* print(translate(...)): the call's frame is gone
TranslateReturn ==
    /\ tr_sentences # <<>>
    /\ tr_sentences' = <<>>
    /\ tr_one_hot' = FALSE
    /\ tr_tokens' = <<>>
    /\ tr_seqs' = <<>>
    /\ tr_input' = <<>>
    /\ tr_preds' = <<>>
    /\ tr_outputs' = <<>>
    /\ UNCHANGED <<pc, corpus_vars, text_vars, tok_vars, gen_vars>>

Next == Cells \/ Generator \/ Translate \/ TranslateReturn

Spec == Init /\ [][Next]_vars

\* max_len and max_examples as the notebook sets them
NotebookMaxLen == 6
NotebookMaxExamples == 80000

\* a corpus file of one pair: "I go" / "Ich gehe"
ExampleEn == << <<"I", " ", "g", "o">> >>
ExampleDe == << <<"I", "c", "h", " ", "g", "e", "h", "e">> >>

\* the state before the corpus cell runs on the one-pair corpus file, with
\* the three limits as the notebook sets them
InitExample ==
    /\ pc = "get_texts"
    /\ source_texts = ExampleEn
    /\ target_texts = ExampleDe
    /\ max_len = NotebookMaxLen
    /\ max_examples = NotebookMaxExamples
    /\ max_vocab_size = NotebookVocabSize
    /\ en_texts = <<>>
    /\ de_texts = <<>>
    /\ n_examples = 0
    /\ NoTokenizers
    /\ NoGenerator
    /\ NoCall

\* the notebook run on the corpora of Init and on the one-pair corpus
SpecExample == (Init \/ InitExample) /\ [][Next]_vars

\* corpus files whose two lists differ in length, as the lengths of the
\* prefixes of CorpusEn and CorpusDe they hold
UnalignedLengths == { <<2, 1>>, <<4, 3>>, <<1, 2>> }

\* the state before the corpus cell runs on such a corpus file
InitUnaligned ==
    /\ pc = "get_texts"
    /\ \E lens \in UnalignedLengths :
          /\ source_texts = Take(CorpusEn, lens[1])
          /\ target_texts = Take(CorpusDe, lens[2])
    /\ max_len = MaxLen
    /\ max_examples = MaxExamples
    /\ max_vocab_size \in {MaxVocabSize, NotebookVocabSize}
    /\ en_texts = <<>>
    /\ de_texts = <<>>
    /\ n_examples = 0
    /\ NoTokenizers
    /\ NoGenerator
    /\ NoCall

\* the notebook run on the corpora of Init and on the unaligned ones
SpecCorpora == (Init \/ InitUnaligned) /\ [][Next]_vars

\* once resumed, the generator's body runs on to its next yield
SpecLive == Spec /\ WF_vars(Shuffle) /\ WF_vars(ForStep)

\* ------------------------------------------------------- claims: get_texts
\* number of whitespace tokens of a text: one more than its blanks
TokenCount(text) == Cardinality({k \in 1..Len(text) : text[k] = " "}) + 1

\* the corpus positions whose source and target both have at most max_len tokens
PassingPositions ==
    { p \in 1..Min(Len(source_texts), Len(target_texts)) :
        /\ TokenCount(source_texts[p]) <= max_len
        /\ TokenCount(target_texts[p]) <= max_len }

\* the number of passing positions up to and including p
Rank(p) == Cardinality({ q \in PassingPositions : q <= p })

Aligned == Len(source_texts) = Len(target_texts)

Returned == pc = "add_tokens"

\* C5 as stated: every sentence of an aligned corpus with at most max_len
\* tokens is in the result, every longer one is not (taken where
\* max_examples cuts nothing off, the case most favourable to the claim).
C5_Original ==
    (Returned /\ Aligned /\ max_examples >= Len(source_texts)) =>
        /\ \A p \in 1..Len(source_texts) :
              (TokenCount(source_texts[p]) <= max_len)
                  <=> (source_texts[p] \in Range(en_texts))
        /\ \A p \in 1..Len(target_texts) :
              (TokenCount(target_texts[p]) <= max_len)
                  <=> (target_texts[p] \in Range(de_texts))

\* C5 amended: get_texts keeps the pair at a position exactly when the
\* source and the target there both have at most max_len tokens and fewer
\* than max_examples such pairs precede it; so every kept sentence has at
\* most max_len tokens and every sentence with more is excluded.
C5_FilterKeepsShortPairs ==
    (Returned /\ Aligned) =>
        /\ \A k \in 1..Len(en_texts) : TokenCount(en_texts[k]) <= max_len
        /\ \A k \in 1..Len(de_texts) : TokenCount(de_texts[k]) <= max_len
        /\ \A p \in PassingPositions :
              Rank(p) <= max_examples =>
                  /\ Rank(p) <= Len(en_texts)
                  /\ Rank(p) <= Len(de_texts)
                  /\ en_texts[Rank(p)] = source_texts[p]
                  /\ de_texts[Rank(p)] = target_texts[p]
        /\ Len(en_texts) <= Cardinality(PassingPositions)

\* a short source dropped because its target is too long, next to a kept pair
C5_Witness ==
    /\ Returned /\ Aligned
    /\ Len(en_texts) >= 1
    /\ \E p \in 1..Len(source_texts) :
          /\ TokenCount(source_texts[p]) <= max_len
          /\ TokenCount(target_texts[p]) > max_len
          /\ source_texts[p] \notin Range(en_texts)

\* C6: the two returned lists have the same length, at most max_examples,
\* and are the sources and the targets of the first max_examples passing
\* positions of the corpus, in corpus order.
C6_AlignedPrefix ==
    Returned =>
        /\ Len(en_texts) = Len(de_texts)
        /\ Len(en_texts) <= max_examples
        /\ Len(en_texts) = Min(max_examples, Cardinality(PassingPositions))
        /\ \E f \in [1..Len(en_texts) -> PassingPositions] :
              /\ \A k \in 1..Len(en_texts) :
                    /\ Rank(f[k]) = k
                    /\ en_texts[k] = source_texts[f[k]]
                    /\ de_texts[k] = target_texts[f[k]]

\* the truncation to max_examples cut a passing pair off
C6_Witness ==
    /\ Returned
    /\ max_examples >= 1
    /\ Cardinality(PassingPositions) > max_examples
    /\ Len(en_texts) = max_examples
    /\ en_texts[1] # de_texts[1]

\* ------------------------------------------------ claims: generate_batches
\* the encoding of the source of corpus example k in the current pass
SourceRow(k) ==
    IF one_hot
    THEN OneHotRows(sequences[k], max_input_length, source_vocab_size)
    ELSE sequences[k]

\* the number of batches a pass needs: the least m with m * batch_size >= n_examples
BatchesNeeded ==
    CHOOSE m \in 0..n_examples :
        /\ m * batch_size >= n_examples
        /\ \A l \in 0..n_examples : l * batch_size >= n_examples => m <= l

\* the corpus positions of the examples of the last yielded batch
LastYielded ==
    SubSeq(pass_seen, Len(pass_seen) - Len(batch[1]) + 1, Len(pass_seen))

\* C1: within a pass no example is yielded twice, each yielded input row is
\* the encoding of the example recorded for it, and after the n_batches
\* yields of a pass the batches together hold every example exactly once.
C1_PassCoversCorpus ==
    gen_pc \in {"for", "yield", "while"} =>
        /\ \A a, b \in 1..Len(pass_seen) : a # b => pass_seen[a] # pass_seen[b]
        /\ Range(pass_seen) \subseteq 1..n_examples
        /\ gen_pc = "yield" =>
              /\ Len(batch[1]) <= Len(pass_seen)
              /\ \A j \in 1..Len(batch[1]) : batch[1][j] = SourceRow(LastYielded[j])
        /\ (gen_pc = "yield" /\ pass_yields = n_batches) =>
              /\ Range(pass_seen) = 1..n_examples
              /\ Len(pass_seen) = n_examples
        /\ (gen_pc = "while" /\ pass_yields > 0) =>
              /\ Range(pass_seen) = 1..n_examples
              /\ Len(pass_seen) = n_examples

\* a pass of several batches, the last one short, in a shuffled order, is over
C1_Witness ==
    /\ gen_pc = "yield"
    /\ pass_yields = n_batches
    /\ n_batches >= 2
    /\ n_examples % batch_size # 0
    /\ Len(pass_seen) = n_examples
    /\ pass_seen[1] # 1

\* C2: the permutation and the permuted arrays change only in the step
\* from the top of the while loop into the for loop, that step is taken
\* only before the first batch of a pass (no batch or all batches of the
\* pass before yielded), and the yield after k yields of the pass returns
\* the positions k*batch_size .. (k+1)*batch_size - 1 of the permuted arrays.
C2_ShufflePerPass ==
    [][ /\ (gen_pc' # "none" /\ (idx' # idx \/ X' # X \/ y' # y)) =>
              (gen_pc = "while" /\ gen_pc' = "for")
        /\ (gen_pc = "while" /\ gen_pc' = "for") =>
              /\ pass_yields \in {0, BatchesNeeded}
              /\ pass_yields' = 0
              /\ i' = 0
        /\ (gen_pc = "for" /\ gen_pc' = "yield") =>
              LET k == pass_yields
                  m == Min(batch_size, n_examples - k * batch_size)
              IN  /\ k = i
                  /\ k < BatchesNeeded
                  /\ pass_yields' = k + 1
                  /\ batch'[1] = [j \in 1..m |-> X[k * batch_size + j]]
                  /\ batch'[2] = [j \in 1..m |-> y[k * batch_size + j]]
        /\ (gen_pc = "yield" /\ gen_pc' = "for") => i' = pass_yields
      ]_vars

\* a new permutation has been drawn after a complete pass of several batches
C2_Witness ==
    /\ gen_pc = "for"
    /\ i = 0
    /\ pass_yields = 0
    /\ batch # <<>>
    /\ n_batches >= 2
    /\ idx[1] # 1

\* C3: every batch of a pass but the last holds batch_size examples, the
\* last holds n_examples - batch_size*(n_batches-1), which is from 1 to
\* batch_size and less than batch_size only if batch_size does not divide
\* n_examples; the input and the target batch have the same size.
C3_BatchSizes ==
    gen_pc = "yield" =>
        LET last == n_examples - batch_size * (n_batches - 1)
        IN  /\ pass_yields \in 1..n_batches
            /\ pass_yields < n_batches => Len(batch[1]) = batch_size
            /\ pass_yields = n_batches =>
                  /\ Len(batch[1]) = last
                  /\ 1 <= last /\ last <= batch_size
                  /\ last < batch_size => n_examples % batch_size # 0
            /\ Len(batch[1]) >= 1
            /\ Len(batch[1]) = Len(batch[2])

\* the short last batch of a pass that began with a full batch
C3_Witness ==
    /\ gen_pc = "yield"
    /\ n_batches >= 2
    /\ pass_yields = n_batches
    /\ Len(batch[1]) < batch_size
    /\ batch_size >= 2

\* C4: the generator never finishes, and whenever its body is running (a
\* pull is under way) it reaches a yield.
C4_AlwaysYields ==
    /\ [](gen_pc # "done")
    /\ (gen_pc \in {"while", "for"}) ~> (gen_pc = "yield")

\* the pull after the last batch of a pass is under way
C4_Witness ==
    /\ gen_pc = "while"
    /\ pass_yields = n_batches
    /\ pass_yields >= 1

\* ------------------------------------------------ claims: padding, decoding
\* the token sequences pad_sequences is handed for the corpus
SourceTokens == TextsToSequences(en_texts, source_word_index, max_vocab_size)
TargetTokens == TextsToSequences(de_texts, target_word_index, max_vocab_size)

\* the arrays of a pass exist
InPass == gen_pc \in {"for", "yield"}

\* a call of translate has computed its result
InCall == tr_sentences # <<>>

\* n is the largest length among the sequences seqs
IsLongest(n, seqs) ==
    /\ \A k \in 1..Len(seqs) : Len(seqs[k]) <= n
    /\ \E k \in 1..Len(seqs) : Len(seqs[k]) = n

\* toks with zeros in front, n items long
ZerosThen(toks, n) ==
    [q \in 1..n |-> IF q <= n - Len(toks) THEN 0 ELSE toks[q - (n - Len(toks))]]

\* row is toks with zeros in front, n items long: no token is missing
IsPadded(row, toks, n) ==
    /\ Len(toks) <= n
    /\ row = ZerosThen(toks, n)

C8_Original ==
    /\ InPass =>
          /\ \A st \in {SourceTokens} :
                \A k \in 1..Len(st) : Len(st[k]) <= max_input_length
          /\ \A tt \in {TargetTokens} :
                \A k \in 1..Len(tt) : Len(tt[k]) <= max_output_length
    /\ InCall =>
          \A k \in 1..Len(tr_tokens) : Len(tr_tokens[k]) <= max_input_length

\* C8 amended: the corpus token sequences (the sources in generate_batches,
\* the targets in build_target_vecs) are no longer than their padding
\* length and are padded whole; so is a sentence of the corpus passed to
\* translate; any other sentence passed to translate with more than
\* max_input_length tokens keeps only its last max_input_length tokens.
C8_CorpusNeverCut ==
    /\ InPass =>
          /\ \A st \in {SourceTokens} :
                \A k \in 1..n_examples :
                   IsPadded(sequences[k], st[k], max_input_length)
          /\ \A tt \in {TargetTokens} :
                \A j \in 1..n_examples :
                   /\ Len(tt[idx[j]]) <= max_output_length
                   /\ \A q \in 1..max_output_length :
                         \A v \in 0..(target_vocab_size - 1) :
                            y[j][q][v] =
                               IF v = ZerosThen(tt[idx[j]], max_output_length)[q]
                               THEN 1 ELSE 0
    /\ InCall =>
          \A k \in 1..Len(tr_sentences) :
             /\ tr_sentences[k] \in Range(en_texts) =>
                   Len(tr_tokens[k]) <= max_input_length
             /\ Len(tr_tokens[k]) <= max_input_length =>
                   IsPadded(tr_seqs[k], tr_tokens[k], max_input_length)
             /\ Len(tr_tokens[k]) > max_input_length =>
                   tr_seqs[k] = [q \in 1..max_input_length |->
                       tr_tokens[k][q + Len(tr_tokens[k]) - max_input_length]]

\* translate was handed a corpus sentence and a longer one, which was cut
C8_Witness ==
    /\ InCall
    /\ Len(tr_sentences) = 2
    /\ tr_sentences[1] \in Range(en_texts)
    /\ Len(tr_tokens[2]) > max_input_length
    /\ tr_seqs[2][1] # tr_tokens[2][1]

\* the words of a token sequence, joined as decode_outputs joins words
WordsOf(toks) == Join([q \in 1..Len(toks) |-> target_reverse_word_index[toks[q]]])

\* C9: decoding the one-hot target tensor of a pass gives, for every
\* example, the words of its token sequence in order and with their
\* multiplicity; every token has a reverse entry and the padding rows add
\* nothing.
C9_RoundTrip ==
    InPass =>
        \A tt \in {TargetTokens}, out \in {decode_outputs(y, target_reverse_word_index)} :
           /\ Len(out) = n_examples
           /\ \A j \in 1..n_examples :
                 /\ \A q \in 1..Len(tt[idx[j]]) :
                       tt[idx[j]][q] \in DOMAIN target_reverse_word_index
                 /\ out[j] = WordsOf(tt[idx[j]])

\* a target with a word twice and a target with a padding row were decoded
C9_Witness ==
    /\ gen_pc = "yield"
    /\ \E j \in 1..n_examples :
          /\ Len(TargetTokens[j]) < max_output_length
          /\ Len(TargetTokens[j]) >= 1
    /\ \E j \in 1..n_examples :
          \E q \in 1..(Len(TargetTokens[j]) - 1) :
             TargetTokens[j][q] = TargetTokens[j][q + 1]

\* the first index that holds the largest value of a row
Best(row) ==
    CHOOSE v \in DOMAIN row :
        \A u \in DOMAIN row : row[u] < row[v] \/ (row[u] = row[v] /\ v <= u)

\* the positions of an example whose best index has a word
Mapped(probs) ==
    { q \in 1..Len(probs) : Best(probs[q]) \in DOMAIN target_reverse_word_index }

\* the m-th position of a set of positions, in rising order
Nth(S, m) == CHOOSE q \in S : Cardinality({ r \in S : r <= q }) = m

\* C10: decode_outputs gives one string per example; the string is the
\* words of the positions whose arg-max index has a reverse entry, in
\* position order with one blank between two words; index 0 has no entry,
\* and an example whose arg-max is 0 everywhere gives the empty string.
C10_DecodeContract ==
    InCall =>
        /\ Len(tr_outputs) = Len(tr_preds)
        /\ 0 \notin DOMAIN target_reverse_word_index
        /\ \A k \in 1..Len(tr_preds) :
              \A kept \in {Mapped(tr_preds[k])} :
                 /\ tr_outputs[k] =
                       Join([m \in 1..Cardinality(kept) |->
                           target_reverse_word_index[Best(tr_preds[k][Nth(kept, m)])]])
                 /\ (\A q \in 1..Len(tr_preds[k]) : Best(tr_preds[k][q]) = 0) =>
                       tr_outputs[k] = <<>>

\* an all-padding prediction and one of equal weights decoded to nothing
C10_Witness ==
    /\ InCall
    /\ tr_outputs[1] = <<>>
    /\ tr_preds[1][1][0] = tr_preds[1][1][1]
    /\ Len(tr_outputs) = 2

\* ------------------------------------------------- claims: start/end tokens
\* the corpus position the k-th kept pair comes from
KeptFrom(k) == Nth(PassingPositions, k)

\* the sentence text between '^ ' and ' $'
Wrapped(text) == <<"^", " ">> \o text \o <<" ", "$">>

\* the tokenizer's words of the k-th target: '^', the words of the
\* sentence, '$'
TargetWords(k) ==
    << <<start_token>> >> \o TextToWordSequence(target_texts[KeptFrom(k)])
        \o << <<end_token>> >>

\* the words of ws the target tokenizer gives an index below max_vocab_size
BelowCap(ws) ==
    SelectSeq(ws, LAMBDA w : /\ w \in DOMAIN target_word_index
                             /\ target_word_index[w] < max_vocab_size)

\* the cells after the one that adds the tokens have run
TokensAdded == pc \in {"tokenize", "max_lengths", "reverse_index", "ready"}

\* "^ ich gehe $"
ExampleDecoded ==
    <<"^", " ", "i", "c", "h", " ", "g", "e", "h", "e", " ", "$">>

\* C12 as stated: decoding the one-hot tensor of a target gives '^', the
\* lower-cased words of the sentence, then '$'.
C12_Original ==
    InPass =>
        \A out \in {decode_outputs(y, target_reverse_word_index)} :
           \A j \in 1..n_examples : out[j] = Join(TargetWords(idx[j]))

\* C12 amended: every kept sentence is wrapped as '^ ' sentence ' $'; the
\* tokenizer's words of a wrapped target are '^', the lower-cased words of
\* the sentence (filter characters taken as blanks), '$'; decoding the
\* target's one-hot tensor gives those of these words whose index is
\* below max_vocab_size, in order; on the one-pair corpus "I go" /
\* "Ich gehe" with the notebook's limits that is "^ ich gehe $".
C12_WrappedAndDecoded ==
    /\ TokensAdded =>
          /\ \A k \in 1..Len(en_texts) :
                en_texts[k] = Wrapped(source_texts[KeptFrom(k)])
          /\ \A k \in 1..Len(de_texts) :
                /\ de_texts[k] = Wrapped(target_texts[KeptFrom(k)])
                /\ TextToWordSequence(de_texts[k]) = TargetWords(k)
    /\ InPass =>
          \A out \in {decode_outputs(y, target_reverse_word_index)} :
             \A j \in 1..n_examples : out[j] = Join(BelowCap(TargetWords(idx[j])))
    /\ (InPass /\ source_texts = ExampleEn /\ target_texts = ExampleDe) =>
          /\ n_examples = 1
          /\ decode_outputs(y, target_reverse_word_index) = <<ExampleDecoded>>

\* the one-pair corpus was wrapped, encoded and yielded
C12_Witness ==
    /\ gen_pc = "yield"
    /\ source_texts = ExampleEn
    /\ max_len = NotebookMaxLen
    /\ de_texts = <<Wrapped(ExampleDe[1])>>
    /\ Len(batch[2]) = 1

\* ------------------------------------------------------ claims: one-hot rows
\* row is a row over the indices 0..size-1 with its one 1 at index t
IsOneHotAt(row, t, size) ==
    /\ DOMAIN row = 0..(size - 1)
    /\ t \in 0..(size - 1)
    /\ \A v \in DOMAIN row : row[v] \in {0, 1}
    /\ row[t] = 1
    /\ Cardinality({ v \in DOMAIN row : row[v] = 1 }) = 1

\* C13: every row of the tensors of build_one_hot_vecs (the one-hot input
\* of a pass and of translate) and of build_target_vecs has exactly one 1,
\* at the token index of its position (0 on a padding position), and 0
\* elsewhere; every index is below the tensor's vocabulary dimension.
C13_ExactlyOneHot ==
    /\ (InPass /\ one_hot) =>
          \A j \in 1..Len(X) : \A q \in 1..max_input_length :
             IsOneHotAt(X[j][q], sequences[idx[j]][q], source_vocab_size)
    /\ InPass =>
          \A tt \in {TargetTokens} :
             \A j \in 1..Len(y) : \A q \in 1..max_output_length :
                IsOneHotAt(y[j][q],
                           IF q <= max_output_length - Len(tt[idx[j]])
                           THEN 0
                           ELSE tt[idx[j]][q - (max_output_length - Len(tt[idx[j]]))],
                           target_vocab_size)
    /\ (InCall /\ tr_one_hot) =>
          \A k \in 1..Len(tr_input) : \A q \in 1..max_input_length :
             IsOneHotAt(tr_input[k][q], tr_seqs[k][q], source_vocab_size)

\* a one-hot input batch with a padding position was yielded
C13_Witness ==
    /\ gen_pc = "yield"
    /\ one_hot
    /\ \E j \in 1..Len(batch[1]) :
          /\ batch[1][j][1][0] = 1
          /\ batch[1][j][max_input_length][0] = 0
    /\ batch[2][1][1][0] = 0

\* ------------------------------------------------------------ claims: errors
\* the notebook has stopped with an exception
Raised == pc \in {"IndexError", "ValueError"}

\* a source with at most max_len tokens lies beyond the end of the targets
ShortSourceBeyondTargets ==
    \E p \in (Len(target_texts) + 1)..Len(source_texts) :
       TokenCount(source_texts[p]) <= max_len

\* C14 as stated: no corpus makes the notebook stop with an error.
C14_Original == ~Raised

\* C14 amended: get_texts raises IndexError exactly when a source with at
\* most max_len tokens has no target at its position, and the max() of
\* the length cell raises ValueError exactly when no pair is kept; on
\* every other corpus, the two lists differing in length or not, the
\* cells finish normally, and translate returns one string per sentence
\* for every sentence, words without index dropped and long sentences cut.
C14_ErrorsOnlyWhenNothingToPair ==
    /\ pc = "IndexError" <=> (pc # "get_texts" /\ ShortSourceBeyondTargets)
    /\ pc = "ValueError" => (en_texts = <<>> /\ ~ShortSourceBeyondTargets)
    /\ (pc \notin {"get_texts", "add_tokens", "tokenize", "max_lengths"}
          /\ ~ShortSourceBeyondTargets
          /\ PassingPositions # {} /\ max_examples >= 1) => ~Raised
    /\ (pc \in {"reverse_index", "ready"}) => en_texts # <<>>
    /\ InCall =>
          /\ pc = "ready"
          /\ Len(tr_outputs) = Len(tr_sentences)
          /\ Len(tr_seqs) = Len(tr_sentences)
          /\ \A k \in 1..Len(tr_sentences) :
                /\ Len(tr_seqs[k]) = max_input_length
                /\ Len(tr_tokens[k]) <= Len(TextToWordSequence(tr_sentences[k]))

\* the notebook ran on to translate on a corpus with fewer targets than
\* sources, and translate was handed a sentence with an unknown word
C14_Witness ==
    /\ InCall
    /\ Len(target_texts) < Len(source_texts)
    /\ \E k \in 1..Len(tr_sentences) :
          Len(tr_tokens[k]) < Len(TextToWordSequence(tr_sentences[k]))

\* ---------------------------------------------------- claims: left padding
\* no zero of row follows a non-zero item
ZerosFirst(row) ==
    \A q, r \in 1..Len(row) : (q < r /\ row[q] # 0) => row[r] # 0

\* the items of row after its zeros
AfterZeros(row) ==
    SelectSeq(row, LAMBDA t : t # 0)

\* the last n items of toks (all of them if there are fewer)
LastOf(toks, n) ==
    [q \in 1..Min(n, Len(toks)) |-> toks[Len(toks) - Min(n, Len(toks)) + q]]

\* the index rows of a one-hot example: per position the index that holds the 1
IndexRow(rows) ==
    [q \in 1..Len(rows) |-> CHOOSE v \in DOMAIN rows[q] : rows[q][v] = 1]

\* C15: in every padded sequence (the sources of a pass, the targets
\* inside build_target_vecs, translate's input) the zeros come first and
\* the tokens of the sentence follow in their order, up to the last item.
C15_ZerosOnTheLeft ==
    /\ InPass =>
          /\ \A st \in {SourceTokens} :
                \A k \in 1..Len(sequences) :
                   /\ ZerosFirst(sequences[k])
                   /\ AfterZeros(sequences[k]) = LastOf(st[k], max_input_length)
          /\ \A tt \in {TargetTokens} :
                \A j \in 1..Len(y) :
                   \A row \in {IndexRow(y[j])} :
                      /\ ZerosFirst(row)
                      /\ AfterZeros(row) = LastOf(tt[idx[j]], max_output_length)
    /\ InCall =>
          \A k \in 1..Len(tr_seqs) :
             /\ ZerosFirst(tr_seqs[k])
             /\ AfterZeros(tr_seqs[k]) = LastOf(tr_tokens[k], max_input_length)

\* a pass over index rows holds a source with one zero in front of its tokens
C15_Witness ==
    /\ gen_pc = "for"
    /\ ~one_hot
    /\ \E k \in 1..Len(sequences) :
          /\ sequences[k][1] = 0
          /\ sequences[k][2] # 0
          /\ X[1] = sequences[k]

\* ------------------------------------------------------- claims: pairing
\* the one-hot encoding of the target of corpus example k
TargetRow(k) ==
    [q \in 1..max_output_length |->
        [v \in 0..(target_vocab_size - 1) |->
            IF v = ZerosThen(TargetTokens[k], max_output_length)[q] THEN 1 ELSE 0]]

\* C16: in every yielded batch, row j of the input batch and row j of the
\* target batch encode the source and the target of one corpus example,
\* the one the pass's permutation put at that row.
C16_PairsStayTogether ==
    gen_pc = "yield" =>
        /\ Len(batch[1]) = Len(batch[2])
        /\ Len(batch[1]) <= Len(pass_seen)
        /\ \A j \in 1..Len(batch[1]) :
              \A e \in {LastYielded[j]} :
                 /\ e = idx[batch_size * i + j]
                 /\ batch[1][j] = SourceRow(e)
                 /\ batch[2][j] = TargetRow(e)

\* a batch of two pairs in an order other than the corpus order, whose
\* two targets differ
C16_Witness ==
    /\ gen_pc = "yield"
    /\ Len(batch[2]) >= 2
    /\ idx[1] > idx[2]
    /\ batch[2][1] # batch[2][2]
    /\ batch[1][1] # batch[1][2]

====
